---- MODULE Spec2Model ----
(***************************************************************************)
(* State-machine model of timeline_generator_app.py, a Streamlit script.   *)
(* Streamlit runs the whole script once per user interaction; one action   *)
(* of this model is one such run (including the run that                   *)
(* st.experimental_rerun() starts when a handler calls it), or one tick    *)
(* of the wall clock between two runs.                                     *)
(*                                                                         *)
(* Representation of values:                                               *)
(*  - a datetime is [day, sec]: days since 2024-01-01 and seconds since    *)
(*    midnight; a date is the datetime with sec = 0;                       *)
(*  - the text "YYYY-MM-DD" is the tuple of its numeric fields <<y,m,d>>;  *)
(*  - a phase name is a sequence of chunks, each chunk a single blank " "  *)
(*    or a run of non-blank characters, so that str.strip() is computed;   *)
(*  - a file name is a sequence of chunks (prefix, stem, extension);       *)
(*  - a JSON document is a function from its keys to their values.         *)
(* A widget created with a value argument returns that value unless the    *)
(* user changed this widget in the interaction that started the run.       *)
(***************************************************************************)
EXTENDS Integers, Sequences, FiniteSets, TLC

VARIABLES
    project_name,   \* st.session_state.project_name
    start_date,     \* st.session_state.start_date
    phases,         \* st.session_state.phases
    notes,          \* st.session_state.notes
    files,          \* the working directory: file name -> JSON document
    project_files,  \* the listing offered by the "Load Existing Project" box
    now,            \* the wall clock
    timeline,       \* the timeline table shown by the last run
    saved,          \* history: file name -> the project the Save handler
                    \* last wrote under that name
    last,           \* history: the last event and its inputs / outcome
    steps           \* number of events so far

vars == <<project_name, start_date, phases, notes, files, project_files,
          now, timeline, saved, last, steps>>

\* Bound on the number of events (script runs and clock ticks) explored.
MaxSteps == 3

-----------------------------------------------------------------------------
(* Calendar: datetime arithmetic, strftime and strptime.                   *)

IsLeap(y) == (y % 4 = 0 /\ y % 100 # 0) \/ y % 400 = 0

DaysInYear(y) == IF IsLeap(y) THEN 366 ELSE 365

DaysInMonth(y, m) ==
    IF m = 2 THEN (IF IsLeap(y) THEN 29 ELSE 28)
    ELSE IF m \in {4, 6, 9, 11} THEN 30 ELSE 31

RECURSIVE DaysBeforeYear(_)
DaysBeforeYear(y) ==
    IF y <= 2024 THEN 0 ELSE DaysBeforeYear(y - 1) + DaysInYear(y - 1)

RECURSIVE DaysBeforeMonth(_, _)
DaysBeforeMonth(y, m) ==
    IF m <= 1 THEN 0 ELSE DaysBeforeMonth(y, m - 1) + DaysInMonth(y, m - 1)

\* Day number of the calendar date y-m-d.
DayOfDate(y, m, d) == DaysBeforeYear(y) + DaysBeforeMonth(y, m) + (d - 1)

RECURSIVE YearOfDay(_, _)
YearOfDay(y, n) ==
    IF n < DaysInYear(y) THEN <<y, n>> ELSE YearOfDay(y + 1, n - DaysInYear(y))

RECURSIVE MonthOfDay(_, _, _)
MonthOfDay(y, m, n) ==
    IF n < DaysInMonth(y, m) THEN <<m, n + 1>>
    ELSE MonthOfDay(y, m + 1, n - DaysInMonth(y, m))

\* Calendar date <<y, m, d>> of a day number.
DateOfDay(n) ==
    LET yn == YearOfDay(2024, n)
        md == MonthOfDay(yn[1], 1, yn[2])
    IN  <<yn[1], md[1], md[2]>>

\* Mutant of StrftimeDate: the format "%Y-%d-%m", day before month.
StrftimeDate_DayFirst(dt) ==
    LET ymd == DateOfDay(dt.day) IN <<ymd[1], ymd[3], ymd[2]>>

\* start_date.strftime("%Y-%m-%d")
StrftimeDate(dt) == DateOfDay(dt.day)

\* Whether datetime.strptime(s, "%Y-%m-%d") accepts s (the calendar of this
\* model starts with the year 2024).
ValidDateString(s) ==
    /\ Len(s) = 3
    /\ s[1] \in 2024..9999
    /\ s[2] \in 1..12
    /\ s[3] \in 1..DaysInMonth(s[1], s[2])

\* datetime.strptime(s, "%Y-%m-%d"): midnight of that date.
StrptimeDate(s) == [day |-> DayOfDate(s[1], s[2], s[3]), sec |-> 0]

Pad2(n) == IF n < 10 THEN "0" \o ToString(n) ELSE ToString(n)

\* datetime.now().strftime("%Y%m%d_%H%M%S")
StrftimeStamp(dt) ==
    LET ymd == DateOfDay(dt.day)
    IN  ToString(ymd[1]) \o Pad2(ymd[2]) \o Pad2(ymd[3]) \o "_"
        \o Pad2(dt.sec \div 3600) \o Pad2((dt.sec \div 60) % 60)
        \o Pad2(dt.sec % 60)

\* phase_start + timedelta(weeks=w)
AddWeeks(dt, w) == [day |-> dt.day + 7 * w, sec |-> dt.sec]

\* datetime.combine(d, datetime.min.time())
CombineMidnight(d) == [day |-> d.day, sec |-> 0]

\* st.date_input(label, value): returns the date of value.
DateInput(dt) == [day |-> dt.day, sec |-> 0]

\* The clock one second later.
NextSecond(dt) ==
    IF dt.sec + 1 < 86400 THEN [day |-> dt.day, sec |-> dt.sec + 1]
    ELSE [day |-> dt.day + 1, sec |-> 0]

-----------------------------------------------------------------------------
(* Text.                                                                   *)

RECURSIVE LStrip(_)
LStrip(s) == IF s # <<>> /\ Head(s) = " " THEN LStrip(Tail(s)) ELSE s

RECURSIVE RStrip(_)
RStrip(s) ==
    IF s # <<>> /\ s[Len(s)] = " " THEN RStrip(SubSeq(s, 1, Len(s) - 1)) ELSE s

\* str.strip()
Strip(s) == RStrip(LStrip(s))

\* f.startswith(p) and f.endswith(p) for a chunk p.
StartsWith(f, p) == Len(f) >= 1 /\ f[1] = p

EndsWith(f, p) == Len(f) >= 1 /\ f[Len(f)] = p

-----------------------------------------------------------------------------
(* Pure functions of the script.                                           *)

Phase(name, weeks) == [Phase |-> name, Duration |-> weeks]

\* The five phases of lines 156-162.
DefaultPhases ==
    << Phase(<<"Requirements", " ", "&", " ", "Planning">>, 2),
       Phase(<<"Design">>, 3),
       Phase(<<"Development", " ", "Sprint", " ", "1">>, 2),
       Phase(<<"Testing", " ", "&", " ", "QA">>, 3),
       Phase(<<"Deployment", " ", "&", " ", "Launch">>, 1) >>

\* Mutant of EnsureDefaults: line 155 without "or not st.session_state.phases".
EnsureDefaults_Never(ph) == ph

\* Lines 155-162: an empty phase list is replaced by the default phases.
EnsureDefaults(ph) == IF ph = <<>> THEN DefaultPhases ELSE ph

\* The data dictionary of save_project_to_json, as json.dump writes it.
ProjectDocument(pn, sd, ph, nt) ==
    [project_name |-> pn, start_date |-> StrftimeDate(sd),
     phases |-> ph, notes |-> nt]

\* list_local_projects over the names in the working directory.
ListLocalProjects(dir) ==
    {f \in dir : EndsWith(f, ".json") /\ StartsWith(f, "project_")}

\* Mutant of SaveFilename: the extension is left out.
SaveFilename_NoExtension(t) == <<"project_", StrftimeStamp(t)>>

\* Lines 206-207: the file name the Save handler builds at time t.
SaveFilename(t) == <<"project_", StrftimeStamp(t), ".json">>

\* list.pop(i) for the position i (1-based here, 0-based in the script).
RemoveAt(ph, i) == SubSeq(ph, 1, i - 1) \o SubSeq(ph, i + 1, Len(ph))

\* Lines 194-202 without a button press: the widgets of position idx return
\* new_name and new_duration, those of every other position the stored values
\* (idx = 0: no widget was changed).
EditLoop(ph, idx, new_name, new_duration) ==
    [i \in 1..Len(ph) |->
        LET wn == IF i = idx THEN new_name ELSE ph[i].Phase
            wd == IF i = idx THEN new_duration ELSE ph[i].Duration
        IN  IF wn # ph[i].Phase \/ wd # ph[i].Duration
            THEN Phase(wn, wd)
            ELSE ph[i]]

\* Mutant of AddPhaseResult: the name is tested but stored untrimmed.
AddPhaseResult_NoStrip(ph, new_phase_name, new_phase_duration) ==
    IF Strip(new_phase_name) # <<>>
    THEN Append(ph, Phase(new_phase_name, new_phase_duration))
    ELSE ph

\* Lines 177-185: the phase list after "Add Phase" with the given inputs.
AddPhaseResult(ph, new_phase_name, new_phase_duration) ==
    IF Strip(new_phase_name) # <<>>
    THEN Append(ph, Phase(Strip(new_phase_name), new_phase_duration))
    ELSE ph

\* Mutant of TimelineFrom: line 228 (current_start = phase_end) is missing.
TimelineFrom_NoAdvance(current_start, ph) ==
    [i \in 1..Len(ph) |->
        [Phase |-> ph[i].Phase, Start |-> current_start,
         End |-> AddWeeks(current_start, ph[i].Duration),
         Duration |-> ph[i].Duration]]

\* Lines 216-228: the timeline entries of the phases ph from current_start on.
RECURSIVE TimelineFrom(_, _)
TimelineFrom(current_start, ph) ==
    IF ph = <<>> THEN <<>>
    ELSE LET phase_start == current_start
             phase_end   == AddWeeks(phase_start, Head(ph).Duration)
         IN  << [Phase |-> Head(ph).Phase, Start |-> phase_start,
                 End |-> phase_end, Duration |-> Head(ph).Duration] >>
             \o TimelineFrom(phase_end, Tail(ph))

\* load_project_from_json and lines 136-139: the outcome of loading the
\* document stored under the name f, given the session before the load.
\* err names the exception that ends the run ("" when none does).
LoadOutcome(f, pn, sd, ph, nt) ==
    LET keep == [project_name |-> pn, start_date |-> sd, phases |-> ph,
                 notes |-> nt]
    IN  IF f \notin DOMAIN files
        THEN [err |-> "FileNotFoundError"] @@ keep
        ELSE LET data == files[f] IN
        IF "start_date" \notin DOMAIN data
        THEN [err |-> "KeyError"] @@ keep
        ELSE IF ~ValidDateString(data["start_date"])
        THEN [err |-> "ValueError"] @@ keep
        ELSE IF "project_name" \notin DOMAIN data
        THEN [err |-> "KeyError"] @@ keep
        ELSE IF "phases" \notin DOMAIN data
        THEN [err |-> "KeyError", project_name |-> data["project_name"],
              start_date |-> StrptimeDate(data["start_date"]),
              phases |-> ph, notes |-> nt]
        ELSE [err |-> "", project_name |-> data["project_name"],
              start_date |-> StrptimeDate(data["start_date"]),
              phases |-> data["phases"],
              notes |-> IF "notes" \in DOMAIN data THEN data["notes"] ELSE ""]

-----------------------------------------------------------------------------
(* Inputs.                                                                 *)

ProjectNameInputs == {"", "Apollo"}

StartDateInputs == {[day |-> 0, sec |-> 0], [day |-> 365, sec |-> 0]}

NotesInputs == {"", "ship it"}

\* What the user can type as a phase name.
PhaseNameInputs == {<<>>, <<" ">>, <<" ", "Build", " ">>}

\* number_input(min_value=1, max_value=52)
DurationInputs == {1, 52}

\* The working directory when the session starts: documents of earlier
\* sessions, hand-edited documents and unrelated files.
InitialFiles ==
    (<<"project_", "20240101_090000", ".json">> :>
        [project_name |-> "Solo", start_date |-> <<2024, 3, 1>>,
         phases |-> <<Phase(<<"Only">>, 4)>>])
    @@ (<<"project_", "20240102_090000", ".json">> :>
        [project_name |-> "Blank", start_date |-> <<2024, 1, 1>>,
         phases |-> <<>>, notes |-> "old"])
    @@ (<<"project_", "nophases", ".json">> :>
        [project_name |-> "Broken", start_date |-> <<2024, 12, 31>>,
         notes |-> "n"])
    @@ (<<"project_", "noname", ".json">> :>
        [start_date |-> <<2024, 1, 1>>, phases |-> <<Phase(<<"X">>, 1)>>,
         notes |-> "n"])
    @@ (<<"project_", "nodate", ".json">> :>
        [project_name |-> "Undated", phases |-> <<Phase(<<"X">>, 1)>>,
         notes |-> "n"])
    @@ (<<"project_", "baddate", ".json">> :>
        [project_name |-> "Misdated", start_date |-> <<30, 2, 2024>>,
         phases |-> <<Phase(<<"X">>, 1)>>, notes |-> "n"])
    @@ (<<"project_", "readme", ".txt">> :> [project_name |-> "t"])
    @@ (<<"settings", ".json">> :> [project_name |-> "s"])

\* The clock when the session starts: 2024-02-28 23:59:59.
InitialClock == [day |-> 58, sec |-> 86399]

-----------------------------------------------------------------------------
(* The state machine.                                                      *)

\* The four session values that make up the project.
Session(pn, sd, ph, nt) ==
    [project_name |-> pn, start_date |-> sd, phases |-> ph, notes |-> nt]

\* The file names the Save handler has generated in this session.
generated == DOMAIN saved

\* Lines 136-140 and the run that follows: the session a load with the
\* outcome r leaves. After a successful load the script reruns (lines 155-169
\* and the edit loop); after an exception the run ends where it is.
LoadedSession(r) ==
    IF r.err = ""
    THEN Session(r.project_name, DateInput(r.start_date),
                 EditLoop(EnsureDefaults(r.phases), 0, <<>>, 0), r.notes)
    ELSE Session(r.project_name, r.start_date, r.phases, r.notes)

Event(op, err, idx, name, dur, file) ==
    [op |-> op, err |-> err, idx |-> idx, name |-> name, dur |-> dur,
     file |-> file]

\* The first run of the script: lines 131 and 150-169.
Init ==
    /\ project_name = "Demo Project"
    /\ start_date = DateInput(InitialClock)
    /\ phases = EnsureDefaults(<<>>)
    /\ notes = ""
    /\ files = InitialFiles
    /\ project_files = ListLocalProjects(DOMAIN files)
    /\ now = InitialClock
    /\ timeline = <<>>
    /\ saved = <<>>
    /\ last = Event("init", "", 0, <<>>, 0, <<>>)
    /\ steps = 0

\* Time passes between two runs.
Tick ==
    /\ steps < MaxSteps
    /\ now' = NextSecond(now)
    /\ last' = Event("tick", "", 0, <<>>, 0, <<>>)
    /\ steps' = steps + 1
    /\ UNCHANGED <<project_name, start_date, phases, notes, files,
                   project_files, timeline, saved>>

\* What every run of the script does whatever the interaction: line 131
\* lists the directory, and no timeline is shown unless generated.
Run(ev) ==
    /\ steps < MaxSteps
    /\ steps' = steps + 1
    /\ project_files' = ListLocalProjects(DOMAIN files)
    /\ last' = ev
    /\ UNCHANGED now

\* Line 168: the user changes the project name.
SetProjectName(n) ==
    /\ n # project_name
    /\ Run(Event("name", "", 0, <<>>, 0, <<>>))
    /\ project_name' = n
    /\ start_date' = DateInput(start_date)
    /\ phases' = EditLoop(EnsureDefaults(phases), 0, <<>>, 0)
    /\ timeline' = <<>>
    /\ UNCHANGED <<notes, files, saved>>

\* Line 169: the user picks a start date.
SetStartDate(d) ==
    /\ d # start_date
    /\ Run(Event("date", "", 0, <<>>, 0, <<>>))
    /\ start_date' = DateInput(d)
    /\ phases' = EditLoop(EnsureDefaults(phases), 0, <<>>, 0)
    /\ timeline' = <<>>
    /\ UNCHANGED <<project_name, notes, files, saved>>

\* Line 189: the user changes the notes.
EditNotes(t) ==
    /\ t # notes
    /\ Run(Event("notes", "", 0, <<>>, 0, <<>>))
    /\ notes' = t
    /\ start_date' = DateInput(start_date)
    /\ phases' = EditLoop(EnsureDefaults(phases), 0, <<>>, 0)
    /\ timeline' = <<>>
    /\ UNCHANGED <<project_name, files, saved>>

\* Lines 176-185: "Add Phase" with the widgets holding new_phase_name and
\* new_phase_duration. A non-blank name is appended and the script reruns;
\* a blank one shows the error and the run goes on.
AddPhase(new_phase_name, new_phase_duration) ==
    /\ Run(Event("add",
                 IF Strip(new_phase_name) # <<>> THEN "" ELSE "ValidationError",
                 0, new_phase_name, new_phase_duration, <<>>))
    /\ phases' = EditLoop(EnsureDefaults(
                      AddPhaseResult(EnsureDefaults(phases), new_phase_name,
                                     new_phase_duration)), 0, <<>>, 0)
    /\ start_date' = DateInput(start_date)
    /\ timeline' = <<>>
    /\ UNCHANGED <<project_name, notes, files, saved>>

\* Lines 194-202: the user changed the name or the weeks of position idx.
EditPhase(idx, new_name, new_duration) ==
    /\ idx \in 1..Len(phases)
    /\ \/ new_name # phases[idx].Phase /\ new_duration = phases[idx].Duration
       \/ new_name = phases[idx].Phase /\ new_duration # phases[idx].Duration
    /\ Run(Event("edit", "", idx, new_name, new_duration, <<>>))
    /\ phases' = EditLoop(EnsureDefaults(phases), idx, new_name, new_duration)
    /\ start_date' = DateInput(start_date)
    /\ timeline' = <<>>
    /\ UNCHANGED <<project_name, notes, files, saved>>

\* Lines 198-200: the remove button of position idx, then the rerun.
RemovePhase(idx) ==
    /\ idx \in 1..Len(phases)
    /\ Run(Event("remove", "", idx, <<>>, 0, <<>>))
    /\ phases' = EditLoop(EnsureDefaults(RemoveAt(EnsureDefaults(phases), idx)),
                          0, <<>>, 0)
    /\ start_date' = DateInput(start_date)
    /\ timeline' = <<>>
    /\ UNCHANGED <<project_name, notes, files, saved>>

\* Lines 205-209: "Save Project".
SaveProject ==
    LET filename == SaveFilename(now)
        ph == EditLoop(EnsureDefaults(phases), 0, <<>>, 0)
    IN  /\ Run(Event("save", "", 0, <<>>, 0, filename))
        /\ files' = (filename :>
                        ProjectDocument(project_name, DateInput(start_date),
                                        ph, notes)) @@ files
        /\ saved' = (filename :>
                        Session(project_name, DateInput(start_date), ph, notes))
                     @@ saved
        /\ phases' = ph
        /\ start_date' = DateInput(start_date)
        /\ timeline' = <<>>
        /\ UNCHANGED <<project_name, notes>>

\* Lines 212-230: "Generate Timeline".
GenerateTimeline ==
    LET ph == EditLoop(EnsureDefaults(phases), 0, <<>>, 0)
        sd == DateInput(start_date)
    IN  /\ Run(Event("generate",
                     IF ph = <<>> THEN "EmptyTimelineWarning" ELSE "",
                     0, <<>>, 0, <<>>))
        /\ timeline' = IF ph = <<>> THEN <<>>
                       ELSE TimelineFrom(CombineMidnight(sd), ph)
        /\ phases' = ph
        /\ start_date' = sd
        /\ UNCHANGED <<project_name, notes, files, saved>>

\* Lines 134-140: "Load Project" with selected_project chosen from the
\* listing of the previous run. A successful load reruns the script; an
\* exception ends the run with what was assigned before it.
LoadProject(selected_project) ==
    /\ selected_project \in project_files
    /\ LET r == LoadOutcome(selected_project, project_name, start_date,
                            phases, notes)
       IN  /\ Run(Event("load", r.err, 0, <<>>, 0, selected_project))
           /\ project_name' = LoadedSession(r).project_name
           /\ start_date' = LoadedSession(r).start_date
           /\ phases' = LoadedSession(r).phases
           /\ notes' = LoadedSession(r).notes
    /\ timeline' = <<>>
    /\ UNCHANGED <<files, saved>>

\* Lines 143-148: "Start New Project", then the rerun.
StartNewProject ==
    /\ Run(Event("new", "", 0, <<>>, 0, <<>>))
    /\ project_name' = ""
    /\ start_date' = DateInput(now)
    /\ phases' = EditLoop(EnsureDefaults(<<>>), 0, <<>>, 0)
    /\ notes' = ""
    /\ timeline' = <<>>
    /\ UNCHANGED <<files, saved>>

\* Another program deletes a file of the working directory.
ExternalDelete(f) ==
    /\ steps < MaxSteps
    /\ f \in DOMAIN files
    /\ files' = [g \in DOMAIN files \ {f} |-> files[g]]
    /\ last' = Event("delete", "", 0, <<>>, 0, f)
    /\ steps' = steps + 1
    /\ UNCHANGED <<project_name, start_date, phases, notes, project_files,
                   now, timeline, saved>>

Next ==
    \/ Tick
    \/ \E n \in ProjectNameInputs : SetProjectName(n)
    \/ \E d \in StartDateInputs : SetStartDate(d)
    \/ \E t \in NotesInputs : EditNotes(t)
    \/ \E n \in PhaseNameInputs, w \in DurationInputs : AddPhase(n, w)
    \/ \E i \in 1..Len(phases) :
          \/ \E n \in PhaseNameInputs : EditPhase(i, n, phases[i].Duration)
          \/ \E w \in DurationInputs : EditPhase(i, phases[i].Phase, w)
    \/ \E i \in 1..Len(phases) : RemovePhase(i)
    \/ SaveProject
    \/ GenerateTimeline
    \/ \E f \in project_files : LoadProject(f)
    \/ StartNewProject

Spec == Init /\ [][Next]_vars

\* The program in a directory that other programs may delete files from.
NextEnv == Next \/ \E f \in DOMAIN files : ExternalDelete(f)

SpecEnv == Init /\ [][NextEnv]_vars

-----------------------------------------------------------------------------
(* Properties.                                                             *)

\* The project the session holds.
CurrentSession == Session(project_name, start_date, phases, notes)

\* C1: after "Generate Timeline" on a non-empty phase list with durations of
\* 1..52 weeks, the timeline has one entry per phase in list order, the first
\* entry starts at the start date at midnight, every later entry starts when
\* the previous one ends, and every entry ends 7 * duration days after its
\* start.
C1_TimelineContiguous ==
    (/\ last.op = "generate"
     /\ phases # <<>>
     /\ \A i \in 1..Len(phases) : phases[i].Duration \in 1..52)
    => /\ Len(timeline) = Len(phases)
       /\ \A i \in 1..Len(phases) :
             /\ timeline[i].Phase = phases[i].Phase
             /\ timeline[i].Duration = phases[i].Duration
             /\ timeline[i].End =
                   [day |-> timeline[i].Start.day + 7 * phases[i].Duration,
                    sec |-> timeline[i].Start.sec]
       /\ timeline[1].Start = [day |-> start_date.day, sec |-> 0]
       /\ \A i \in 2..Len(phases) : timeline[i].Start = timeline[i - 1].End

\* C1 witness: a timeline of several phases has been generated.
C1_Witness ==
    /\ last.op = "generate"
    /\ Len(timeline) >= 2
    /\ timeline[2].Start.day > timeline[1].Start.day

\* C2: every save writes a file name that no earlier save of the session
\* produced.
C2_SavesNeverCollide ==
    [][last'.op = "save" => last'.file \notin generated]_vars

\* C3: a load that fails changes none of project_name, start_date, phases and
\* notes.
C3_FailedLoadUntouched ==
    [][(last'.op = "load" /\ last'.err # "")
          => Session(project_name', start_date', phases', notes')
               = CurrentSession]_vars

\* C4: loading a document that the Save handler wrote succeeds and leaves the
\* session with the project name, start date, phase list and notes that were
\* saved; and in every state a save is taken in, a load of the document just
\* written, from whatever session, would give back the project that was saved.
C4_SaveLoadRoundTrip ==
    /\ (last.op = "load" /\ last.file \in generated)
       => /\ last.err = ""
          /\ CurrentSession = saved[last.file]
    /\ last.op = "save"
       => LET r == LoadOutcome(last.file, "other", [day |-> 1, sec |-> 0],
                               <<Phase(<<"other">>, 9)>>, "other")
          IN  /\ r.err = ""
              /\ LoadedSession(r) = CurrentSession

\* C4 witness: a document saved in this session has been loaded.
C4_Witness ==
    /\ last.op = "load"
    /\ last.err = ""
    /\ last.file \in generated

\* C5: "Add Phase" with a name that is blank after trimming reports the
\* validation error and leaves the phase list as it was; with any other name
\* it appends one phase, of the trimmed name and the given duration, after the
\* existing phases.
C5_AddPhase ==
    [][last'.op = "add" =>
         IF Strip(last'.name) = <<>>
         THEN /\ last'.err = "ValidationError"
              /\ phases' = phases
         ELSE /\ last'.err = ""
              /\ Len(phases') = Len(phases) + 1
              /\ SubSeq(phases', 1, Len(phases)) = phases
              /\ phases'[Len(phases')]
                   = [Phase |-> Strip(last'.name), Duration |-> last'.dur]]_vars

\* C5 witness: a name with surrounding blanks has been added, trimmed.
C5_Witness ==
    /\ last.op = "add"
    /\ last.err = ""
    /\ last.name # Strip(last.name)
    /\ phases[Len(phases)].Phase = Strip(last.name)

\* C6: whatever phases are added and edited, every phase of the list has a
\* name that is not blank after trimming.
C6_NamesNeverBlank ==
    \A i \in 1..Len(phases) : Strip(phases[i].Phase) # <<>>

\* C7: the remove button of a position leaves the old phase list without the
\* element of that position, one shorter, and changes nothing else of the
\* project.
C7_RemoveExactlyOne ==
    [][last'.op = "remove" =>
         /\ phases' = RemoveAt(phases, last'.idx)
         /\ Len(phases') = Len(phases) - 1
         /\ project_name' = project_name
         /\ start_date' = start_date
         /\ notes' = notes]_vars

\* C8: the listing of saved projects holds every file name the Save handler
\* has generated, and every listed name starts with project_ and ends with
\* .json.
C8_ListingComplete ==
    /\ generated \subseteq ListLocalProjects(DOMAIN files)
    /\ \A f \in ListLocalProjects(DOMAIN files) :
          f[1] = "project_" /\ f[Len(f)] = ".json"

\* C8 witness: two saves have generated two file names.
C8_Witness ==
    /\ last.op = "save"
    /\ Cardinality(generated) >= 2

\* C9: after a successful load the session holds exactly the document's
\* project name, start date, phase list and notes ("" when it has none).
C9_LoadReplacesWholesale ==
    (last.op = "load" /\ last.err = "")
    => LET data == files[last.file]
       IN  /\ project_name = data["project_name"]
           /\ StrftimeDate(start_date) = data["start_date"]
           /\ phases = data["phases"]
           /\ notes = IF "notes" \in DOMAIN data THEN data["notes"] ELSE ""

\* C10: the phase list is never empty when a save or generate is evaluated:
\* generate never takes its warning branch, and no document written by the
\* Save handler has an empty phases array.
C10_PhasesNeverEmpty ==
    /\ phases # <<>>
    /\ last.op = "generate" => last.err = "" /\ timeline # <<>>
    /\ \A f \in generated : files[f]["phases"] # <<>>

\* C10 witness: a timeline has been generated after "Start New Project"
\* emptied the list.
C10_Witness ==
    /\ last.op = "generate"
    /\ project_name = ""
    /\ phases = DefaultPhases

====
